---------------------------- MODULE Spec2Model ----------------------------
(***************************************************************************)
(* Model of src/podcast_generation_app.py: voice assignment, dialogue      *)
(* extraction, per-line speech synthesis with bounded retry, assembly of   *)
(* the clips in the working directory, and the OAuth code exchange.        *)
(*                                                                         *)
(* Reading of the source.  The text of combine_audio_clips_ffmpeg does not *)
(* close the sorted( call of lines 228-231, and the `return False` of line *)
(* 235 stands at function level, not inside `if not mp3_files:`.  The      *)
(* model closes the call after its last argument (the only place where the *)
(* following `if` statement can start) and keeps every statement at the    *)
(* indentation the source gives it: the function returns False at line 235 *)
(* for every directory, and lines 237-284 (manifest, ffmpeg, metadata,     *)
(* replace, cleanup) are never executed.                                   *)
(*                                                                         *)
(* Local filesystem calls (makedirs, open/write, listdir, remove) are      *)
(* taken to succeed; remote calls and their outcomes are inputs.           *)
(***************************************************************************)
EXTENDS Integers, Sequences, FiniteSets, TLC

\* ------------------------------------------------------------------ bounds
MaxRuns == 2          \* generation runs in one working directory
MaxLines == 2         \* raw lines of a generated script
MaxSpeakers == 3      \* speakers entered in the form (the form allows up to 5)
MaxCodes == 2         \* authorization codes the user obtains
MaxPageRuns == 4      \* page reruns of one session
MaxUploads == 2       \* calls of upload_to_podbean in one session
MaxCleanups == 2      \* calls of cleanup_temp_files on one folder

\* ------------------------------------------------------- program constants
MaxAttempts == 3      \* for attempt in range(3)
PadWidth == 3         \* f"{idx + 1:03d}"

MALE_VOICES == <<"iP95p4xoKVk53GoZ742B", "wViXBPUzp2ZZixB1xQuM", "TxGEqnHWrfWFTfGW9XjX">>

FEMALE_VOICES == <<"XcXEQzuLXRU9RcfWzEJt", "ADd2WEtjmwokqUr0Y5Ad", "AZnzlk1XvdvUeBnXmlld">>

\* ------------------------------------------------------------ text helpers
\* Text is a sequence of one-character strings.
Whitespace == {" ", "\n"}

SeqRange(s) == {s[i] : i \in 1..Len(s)}

\* str.lower() on one character of the alphabet used here
LowerChar(c) ==
    CASE c = "A" -> "a"
      [] c = "B" -> "b"
      [] c = "J" -> "j"
      [] c = "I" -> "i"
      [] c = "Z" -> "z"
      [] OTHER -> c

Lower(s) == [i \in 1..Len(s) |-> LowerChar(s[i])]

RECURSIVE LStrip(_)
LStrip(s) ==
    IF s # <<>> /\ Head(s) \in Whitespace THEN LStrip(Tail(s)) ELSE s

RECURSIVE RStrip(_)
RStrip(s) ==
    IF s # <<>> /\ s[Len(s)] \in Whitespace THEN RStrip(SubSeq(s, 1, Len(s) - 1)) ELSE s

\* str.strip()
Strip(s) == RStrip(LStrip(s))

\* str.split(): the maximal runs of non-whitespace characters, in order
RECURSIVE SplitFrom(_, _)
SplitFrom(s, cur) ==
    IF s = <<>> THEN (IF cur = <<>> THEN <<>> ELSE <<cur>>)
    ELSE IF Head(s) \in Whitespace
         THEN (IF cur = <<>> THEN <<>> ELSE <<cur>>) \o SplitFrom(Tail(s), <<>>)
         ELSE SplitFrom(Tail(s), Append(cur, Head(s)))

Split(s) == SplitFrom(s, <<>>)

\* x.strip().split()[0] exists; indexing the empty list raises IndexError
HasToken(s) == Split(Strip(s)) # <<>>

\* x.strip().split()[0].lower()
FirstNameKey(s) == Lower(Split(Strip(s))[1])

\* ---------------------------------------------------------------- inputs
\* Names the form can hold: any non-empty text (get_character_info rejects
\* only the empty string).
NameAl == <<"A", "l">>
NameAlZ == <<"A", "l", " ", "Z">>
NameJo == <<" ", "J", "o">>
NameBlank == <<" ">>

Names == {NameAl, NameAlZ, NameJo, NameBlank}

Genders == {"male", "female"}

Characters == [name : Names, gender : Genders]

RECURSIVE SeqsUpTo(_, _)
SeqsUpTo(S, n) ==
    IF n = 0 THEN {<<>>}
    ELSE LET shorter == SeqsUpTo(S, n - 1)
         IN shorter \cup {Append(s, x) : s \in {t \in shorter : Len(t) = n - 1}, x \in S}


\* ------------------------------------------------------- voice assignment
Pool(gender) == IF gender = "male" THEN MALE_VOICES ELSE FEMALE_VOICES

\* available = [v for v in available_voices if v not in used_voices]
Available(gender, used_voices) == {v \in SeqRange(Pool(gender)) : v \notin used_voices}

\* the voices random.choice can return for a speaker of this gender
Choosable(gender, used_voices) ==
    IF Available(gender, used_voices) # {}
    THEN Available(gender, used_voices)
    ELSE SeqRange(Pool(gender))

\* voice_mapping[first_name] = chosen_voice
MapPut(m, k, v) == [x \in DOMAIN m \cup {k} |-> IF x = k THEN v ELSE m[x]]

NoMapping == [x \in {} |-> ""]

AssignRaised == [raised |-> TRUE, voice_mapping |-> NoMapping, assignments |-> <<>>]

\* The loop of assign_voices_to_characters from character i on, with the
\* loop's variables vm (voice_mapping), used (used_voices), asg (assignments):
\* the set of results over every random choice.  A name without a token
\* raises IndexError out of the function.
RECURSIVE AssignFrom(_, _, _, _, _)
AssignFrom(chars, i, vm, used, asg) ==
    IF i > Len(chars)
    THEN {[raised |-> FALSE, voice_mapping |-> vm, assignments |-> asg]}
    ELSE IF ~HasToken(chars[i].name)
    THEN {AssignRaised}
    ELSE UNION { AssignFrom(chars, i + 1,
                            MapPut(vm, FirstNameKey(chars[i].name), v),
                            IF Available(chars[i].gender, used) # {}
                            THEN used \cup {v} ELSE used,
                            Append(asg, [name |-> chars[i].name, voice |-> v]))
                 : v \in Choosable(chars[i].gender, used) }

assign_voices_to_characters(chars) == AssignFrom(chars, 1, NoMapping, {}, <<>>)

\* ----------------------------------------------------------- script text
\* A generated script is a sequence of raw lines.  A "dialogue" line is
\* `<label>: <text>` with a label of letters and blanks (at least two
\* characters, the first a letter) and a non-empty text; a "plain" line holds
\* letters and blanks only, and no colon; an "other" line holds, before any
\* colon, a character that is neither a letter nor whitespace.
LabelAl == <<"A", "l">>
LabelJo == <<"J", "o">>
PlainIn == <<"I", "n">>

ScriptLines ==
    [kind : {"dialogue"}, text : {LabelAl, LabelJo}]
        \cup [kind : {"plain"}, text : {PlainIn}]
        \cup [kind : {"other"}, text : {<<>>}]

Scripts == SeqsUpTo(ScriptLines, MaxLines)

\* re.findall(r"^([A-Za-z][A-Za-z\s]+?):\s*([^\n]+)", script, re.MULTILINE):
\* the speaker labels of the matches, in order.  \s also matches the line
\* break, so a match that starts on a plain line runs on through the
\* following plain lines into the label of the next dialogue line; an other
\* line ends the attempt.  pending is the text matched so far.
RECURSIVE FindAllFrom(_, _, _)
FindAllFrom(scr, i, pending) ==
    IF i > Len(scr) THEN <<>>
    ELSE IF scr[i].kind = "dialogue"
    THEN <<(IF pending = <<>> THEN scr[i].text ELSE pending \o <<"\n">> \o scr[i].text)>>
             \o FindAllFrom(scr, i + 1, <<>>)
    ELSE IF scr[i].kind = "plain"
    THEN FindAllFrom(scr, i + 1,
                     IF pending = <<>> THEN scr[i].text ELSE pending \o <<"\n">> \o scr[i].text)
    ELSE FindAllFrom(scr, i + 1, <<>>)

FindAll(scr) == FindAllFrom(scr, 1, <<>>)

\* -------------------------------------------------------------- file names
RECURSIVE Digits(_)
Digits(n) == IF n < 10 THEN <<n>> ELSE Append(Digits(n \div 10), n % 10)

RECURSIVE ZeroPad(_, _)
ZeroPad(ds, width) == IF Len(ds) >= width THEN ds ELSE ZeroPad(<<0>> \o ds, width)

\* f"{idx + 1:03d}_{speaker.strip()}.mp3" for the 0-based idx of enumerate
ClipName(idx, speaker) == [prefix |-> ZeroPad(Digits(idx + 1), PadWidth), label |-> Strip(speaker)]

RECURSIVE ParseInt(_)
ParseInt(ds) == IF ds = <<>> THEN 0 ELSE 10 * ParseInt(SubSeq(ds, 1, Len(ds) - 1)) + ds[Len(ds)]

\* key=lambda x: int(x.split("_")[0])
SortKey(name) == ParseInt(name.prefix)

\* sorted(listing, key=...) over every order os.listdir can return: the
\* sequences of all names with non-decreasing keys (the sort is stable, so
\* names with equal keys keep the listing's order).
RECURSIVE SortedListings(_)
SortedListings(S) ==
    IF S = {} THEN {<<>>}
    ELSE LET least == {x \in S : \A y \in S : SortKey(x) <= SortKey(y)}
         IN UNION { {<<x>> \o t : t \in SortedListings(S \ {x})} : x \in least }


\* ------------------------------------------------------------------ state
VARIABLES
    pc,                 \* position of the script run
    run,                \* generation runs started in this working directory
    characters,         \* the speakers the form returned
    voice_mapping,      \* st.session_state.voice_mapping
    assignments,        \* st.session_state.assignments
    script,             \* st.session_state.script: [set, text]
    podcast_ready,      \* st.session_state.podcast_ready
    lines,              \* extract_and_generate_audio: the matches of re.findall
    idx,                \* 0-based index of the line the loop is at
    attempt,            \* attempts made for that line
    generated_files,    \* names appended at line 200
    calls,              \* outcomes of the synthesis calls made for that line
    okLines,            \* indices whose clip was written in this run
    synthResult,        \* what extract_and_generate_audio returned
    dir,                \* per-line clips in audio_clips: [name, by] (by = writing run)
    final,              \* final_podcast.mp3: [exists, clips]
    manifest,           \* files.txt: [exists, entries]
    mp3_files,          \* combine_audio_clips_ffmpeg: the sorted listing
    toolCalls,          \* invocations of ffmpeg
    combineResult,      \* what combine_audio_clips_ffmpeg returned
    error,              \* the st.error shown by the run
    stages,             \* stages the run started, in order
    dirAtStart,         \* dir when the run started
    session_keys,       \* the keys main has put into st.session_state
    podbean_access_token,    \* st.session_state.podbean_access_token
    podbean_authenticated,   \* st.session_state.podbean_authenticated
    query_code,         \* the "code" query parameter of the page URL (0 = none)
    codesIssued,        \* authorization codes handed out so far
    exchanges,          \* token-endpoint calls: [code, outcome, result]
    pageRuns,           \* script reruns so far
    uploads,            \* calls of upload_to_podbean: [token, status, requests, result, error]
    folder,             \* cleanup_temp_files: the output folder, [exists, files]
    folderBefore,       \* the folder when the last call of cleanup_temp_files started
    warnings,           \* the files the last call of cleanup_temp_files warned about
    cleanupCalls        \* calls of cleanup_temp_files so far

genVars == <<run, characters, voice_mapping, assignments, script, podcast_ready>>

synthVars == <<lines, idx, attempt, generated_files, calls, okLines, synthResult>>

fsVars == <<dir, final, manifest>>

mixVars == <<mp3_files, toolCalls, combineResult>>

runVars == <<error, stages, dirAtStart>>

authVars == <<session_keys, podbean_access_token, podbean_authenticated, query_code, codesIssued, exchanges, pageRuns>>

pubVars == <<uploads>>

cleanVars == <<folder, folderBefore, warnings, cleanupCalls>>

vars == <<pc, genVars, synthVars, fsVars, mixVars, runVars, authVars, pubVars, cleanVars>>

NoFile == [exists |-> FALSE, clips |-> <<>>]

NoManifest == [exists |-> FALSE, entries |-> <<>>]

NoFolder == [exists |-> FALSE, files |-> {}]

ClipNamesOf(d) == {f.name : f \in d}

\* open(filename, "wb") from run r: creates the file or replaces its content
WriteClip(d, name, r) == {f \in d : f.name # name} \cup {[name |-> name, by |-> r]}

\* --------------------------------------------- extract_and_generate_audio
\* What one synthesis call can come back with: an exception (transport
\* failure or timeout), a status outside 2xx, status 200 with an empty body,
\* a 2xx status other than 200 with a body, status 200 with a body.
Outcomes == {"exception", "non2xx", "empty200", "other2xx", "ok200"}

\* if response.status_code == 200 and response.content
Accepted(o) == o = "ok200"

\* range(3): the attempt counter after a failed attempt
AfterFailureSkipException(a, o) == IF o = "exception" THEN a ELSE a + 1

AfterFailure(a, o) == a + 1

\* voice_mapping.get(first_name) for a label of the script
VoiceOfOrDefault(vm, speaker) ==
    IF FirstNameKey(speaker) \in DOMAIN vm THEN vm[FirstNameKey(speaker)] ELSE MALE_VOICES[1]

VoiceOf(vm, speaker) ==
    IF FirstNameKey(speaker) \in DOMAIN vm THEN vm[FirstNameKey(speaker)] ELSE "None"

\* lines 153-164
ExtractStart ==
    /\ pc = "extract"
    /\ lines' = FindAll(script.text)
    /\ stages' = Append(stages, "synth")
    /\ idx' = 0
    /\ attempt' = 0
    /\ generated_files' = <<>>
    /\ calls' = <<>>
    /\ okLines' = {}
    /\ IF lines' = <<>>
       THEN /\ error' = "EmptyScript"
            /\ synthResult' = "False"
            /\ pc' = "extract_returned"
       ELSE /\ error' = error
            /\ synthResult' = "none"
            /\ pc' = "loop"
    /\ UNCHANGED <<genVars, fsVars, mixVars, dirAtStart, authVars, pubVars, cleanVars>>

\* lines 166-175: the loop reaches a line without a voice and continues
LineSkip ==
    /\ pc = "loop"
    /\ idx < Len(lines)
    /\ VoiceOf(voice_mapping, lines[idx + 1]) = "None"
    /\ idx' = idx + 1
    /\ calls' = <<>>
    /\ attempt' = 0
    /\ UNCHANGED <<pc, genVars, lines, generated_files, okLines, synthResult,
                   fsVars, mixVars, runVars, authVars, pubVars, cleanVars>>

\* lines 166-179: the loop reaches a line with a voice and enters the retry loop
LineStart ==
    /\ pc = "loop"
    /\ idx < Len(lines)
    /\ VoiceOf(voice_mapping, lines[idx + 1]) # "None"
    /\ pc' = "try"
    /\ calls' = <<>>
    /\ attempt' = 0
    /\ UNCHANGED <<genVars, lines, idx, generated_files, okLines, synthResult,
                   fsVars, mixVars, runVars, authVars, pubVars, cleanVars>>

\* lines 179-206: one pass of the retry loop, the remote call coming back with o
SynthAttempt(o) ==
    /\ pc = "try"
    /\ attempt < MaxAttempts
    /\ calls' = Append(calls, o)
    /\ IF Accepted(o)
       THEN /\ dir' = WriteClip(dir, ClipName(idx, lines[idx + 1]), run)
            /\ generated_files' = Append(generated_files, ClipName(idx, lines[idx + 1]))
            /\ okLines' = okLines \cup {idx}
            /\ attempt' = attempt
            /\ idx' = idx + 1
            /\ pc' = "loop"
       ELSE /\ attempt' = AfterFailure(attempt, o)
            /\ IF attempt' >= MaxAttempts
               THEN idx' = idx + 1 /\ pc' = "loop"
               ELSE idx' = idx /\ pc' = "try"
            /\ UNCHANGED <<dir, generated_files, okLines>>
    /\ UNCHANGED <<genVars, lines, synthResult, final, manifest, mixVars, runVars, authVars, pubVars, cleanVars>>

\* if not generated_files (line 211)
StageFailsIncomplete(files, ls) == Len(files) < Len(ls)

StageFails(files, ls) == files = <<>>

\* lines 208-215
SynthFinish ==
    /\ pc = "loop"
    /\ idx >= Len(lines)
    /\ IF StageFails(generated_files, lines)
       THEN error' = "NoAudioGenerated" /\ synthResult' = "False"
       ELSE error' = error /\ synthResult' = "True"
    /\ pc' = "extract_returned"
    /\ UNCHANGED <<genVars, lines, idx, attempt, generated_files, calls, okLines,
                   fsVars, mixVars, stages, dirAtStart, authVars, pubVars, cleanVars>>

\* main, lines 475-478: not extract_and_generate_audio(...) stops the run
ProceedsAlways(result) == TRUE

Proceeds(result) == result = "True"

MainAfterExtract ==
    /\ pc = "extract_returned"
    /\ IF Proceeds(synthResult)
       THEN pc' = "mix" /\ stages' = Append(stages, "mix")
       ELSE pc' = "stopped" /\ stages' = stages
    /\ UNCHANGED <<genVars, synthVars, fsVars, mixVars, error, dirAtStart, authVars, pubVars, cleanVars>>


\* ---------------------------------------------- combine_audio_clips_ffmpeg
\* A variant that writes the manifest and runs the tool for every listing.
combine_unchecked(fin, man, listing) ==
    [final |-> [exists |-> TRUE, clips |-> listing],
     manifest |-> [exists |-> TRUE, entries |-> listing],
     mp3_files |-> listing,
     toolCalls |-> 1,
     error |-> "none",
     result |-> "True"]

\* Lines 220-235, for the sorted listing the directory gives: the final
\* artifact is removed if it exists, the listing is computed, an empty listing
\* is reported, and the function returns False (line 235).
combine_audio_clips_ffmpeg(fin, man, listing) ==
    [final |-> NoFile,
     manifest |-> man,
     mp3_files |-> listing,
     toolCalls |-> 0,
     error |-> IF listing = <<>> THEN "NoClipsToAssemble" ELSE "none",
     result |-> "False"]

CombineCall ==
    /\ pc = "mix"
    /\ \E listing \in SortedListings(ClipNamesOf(dir)) :
         LET c == combine_audio_clips_ffmpeg(final, manifest, listing)
         IN /\ final' = c.final
            /\ manifest' = c.manifest
            /\ mp3_files' = c.mp3_files
            /\ toolCalls' = toolCalls + c.toolCalls
            /\ combineResult' = c.result
            /\ error' = IF c.error # "none" THEN c.error ELSE error
    /\ pc' = "combine_returned"
    /\ UNCHANGED <<genVars, synthVars, dir, stages, dirAtStart, authVars, pubVars, cleanVars>>

\* main, lines 479-483
MainAfterCombine ==
    /\ pc = "combine_returned"
    /\ IF combineResult = "True"
       THEN podcast_ready' = TRUE /\ pc' = "done"
       ELSE podcast_ready' = podcast_ready /\ pc' = "stopped"
    /\ UNCHANGED <<run, characters, voice_mapping, assignments, script,
                   synthVars, fsVars, mixVars, runVars, authVars, pubVars, cleanVars>>

\* ------------------------------------------- the stages as whole operations
\* The retry loop of lines 179-206 run to its end on the outcomes os.
RECURSIVE AttemptLoop(_, _, _)
AttemptLoop(os, a, k) ==
    IF a >= MaxAttempts \/ k > Len(os) THEN "exhausted"
    ELSE IF Accepted(os[k]) THEN "written"
    ELSE AttemptLoop(os, AfterFailure(a, os[k]), k + 1)

LineResults == {AttemptLoop(os, 0, 1) : os \in [1..MaxAttempts -> Outcomes]}

\* The loop of lines 166-206 from line i on; res[i + 1] is how the retry loop
\* of line i ends.
RECURSIVE ExtractFrom(_, _, _, _, _, _, _)
ExtractFrom(ls, i, vm, d, r, files, res) ==
    IF i >= Len(ls) THEN [dir |-> d, generated_files |-> files]
    ELSE IF VoiceOf(vm, ls[i + 1]) = "None" \/ res[i + 1] # "written"
    THEN ExtractFrom(ls, i + 1, vm, d, r, files, res)
    ELSE ExtractFrom(ls, i + 1, vm, WriteClip(d, ClipName(i, ls[i + 1]), r), r,
                     Append(files, ClipName(i, ls[i + 1])), res)

\* extract_and_generate_audio(script, voice_mapping) as one operation
extract_and_generate_audio(text, vm, d, r, res) ==
    LET ls == FindAll(text)
        e == ExtractFrom(ls, 0, vm, d, r, <<>>, res)
    IN IF ls = <<>>
       THEN [result |-> "False", error |-> "EmptyScript", lines |-> ls,
             dir |-> d, generated_files |-> <<>>]
       ELSE [result |-> IF StageFails(e.generated_files, ls) THEN "False" ELSE "True",
             error |-> IF StageFails(e.generated_files, ls) THEN "NoAudioGenerated" ELSE "none",
             lines |-> ls, dir |-> e.dir, generated_files |-> e.generated_files]

\* generate_podcast_script: None after an exception, else the text returned
\* The scripts the generation runs are given: dialogue lines only, one
\* script without a dialogue line, and the empty text
DialogueLines == {l \in ScriptLines : l.kind = "dialogue"}

OtherLine == [kind |-> "other", text |-> <<>>]

RunScripts == SeqsUpTo(DialogueLines, MaxLines) \cup {<<OtherLine>>}

ScriptOutcomes == [ok : {FALSE}, text : {<<>>}] \cup [ok : {TRUE}, text : RunScripts]

\* The casts entered in the form for a generation run
CastAl == <<[name |-> NameAl, gender |-> "male"]>>
CastBlank == <<[name |-> NameBlank, gender |-> "male"]>>

Casts == {CastAl, CastBlank}

OkIndices(ls, files) == {i \in 0..(Len(ls) - 1) : ClipName(i, ls[i + 1]) \in SeqRange(files)}

\* How far a run gets: the last stage it starts
ReachIgnoringScript(a, g, e) ==
    IF a.raised THEN "assign"
    ELSE IF ~Proceeds(e.result) THEN "synth"
    ELSE "mix"

Reach(a, g, e) ==
    IF a.raised THEN "assign"
    ELSE IF ~g.ok \/ g.text = <<>> THEN "script"
    ELSE IF ~Proceeds(e.result) THEN "synth"
    ELSE "mix"

StagesUpTo(reach) ==
    CASE reach = "assign" -> <<"assign">>
      [] reach = "script" -> <<"assign", "script">>
      [] reach = "synth" -> <<"assign", "script", "synth">>
      [] OTHER -> <<"assign", "script", "synth", "mix">>

\* main, lines 452-487: one click on Generate, run to its end.  A failing
\* assign_voices_to_characters raises into the except of line 485; a script
\* that is None or empty stops the run at line 468; a False from
\* extract_and_generate_audio stops it at line 476, one from
\* combine_audio_clips_ffmpeg at line 480.
GenerateClick ==
    /\ pc = "idle"
    /\ run < MaxRuns
    /\ podbean_authenticated
    /\ run' = run + 1
    /\ dirAtStart' = dir
    /\ \E chars \in Casts :
       \E a \in assign_voices_to_characters(chars), g \in ScriptOutcomes :
       \E res \in [1..Len(FindAll(g.text)) -> LineResults] :
       \E e \in {extract_and_generate_audio(g.text, a.voice_mapping, dir, run + 1, res)} :
       \E reach \in {Reach(a, g, e)} :
       \E listing \in (IF reach = "mix" THEN SortedListings(ClipNamesOf(e.dir)) ELSE {<<>>}) :
       \E c \in {combine_audio_clips_ffmpeg(final, manifest, listing)} :
            LET atSynth == reach \in {"synth", "mix"}
            IN /\ characters' = chars
               /\ stages' = StagesUpTo(reach)
               /\ voice_mapping' = IF reach = "assign" THEN voice_mapping ELSE a.voice_mapping
               /\ assignments' = IF reach = "assign" THEN assignments ELSE a.assignments
               /\ script' = IF atSynth THEN [set |-> TRUE, text |-> g.text] ELSE script
               /\ lines' = IF atSynth THEN e.lines ELSE <<>>
               /\ generated_files' = IF atSynth THEN e.generated_files ELSE <<>>
               /\ okLines' = IF atSynth THEN OkIndices(e.lines, e.generated_files) ELSE {}
               /\ synthResult' = IF atSynth THEN e.result ELSE "none"
               /\ dir' = IF atSynth THEN e.dir ELSE dir
               /\ final' = IF reach = "mix" THEN c.final ELSE final
               /\ manifest' = IF reach = "mix" THEN c.manifest ELSE manifest
               /\ mp3_files' = IF reach = "mix" THEN c.mp3_files ELSE <<>>
               /\ toolCalls' = IF reach = "mix" THEN toolCalls + c.toolCalls ELSE toolCalls
               /\ combineResult' = IF reach = "mix" THEN c.result ELSE "none"
               /\ podcast_ready' = (podcast_ready \/ (reach = "mix" /\ c.result = "True"))
               /\ error' = CASE reach = "assign" -> "GenerationFailed"
                             [] reach = "script" /\ ~g.ok -> "ScriptGenerationFailed"
                             [] reach = "script" /\ g.ok -> "none"
                             [] reach = "synth" -> e.error
                             [] OTHER -> c.error
    /\ UNCHANGED <<pc, idx, attempt, calls, authVars, pubVars, cleanVars>>

\* ------------------------------------------------------ the input form
\* get_character_info, lines 63-84, on the widget values: None as soon as a
\* name is empty, else the list of the speakers
NameEmpty == <<>>

FormCharacters == [name : Names \cup {NameEmpty}, gender : Genders]

get_character_info(form) ==
    IF \E i \in 1..Len(form) : form[i].name = NameEmpty
    THEN [ok |-> FALSE, characters |-> <<>>]
    ELSE [ok |-> TRUE, characters |-> form]

\* main, lines 448-450
GetCharacterInfo ==
    /\ pc = "form"
    /\ LET r == get_character_info(characters)
       IN IF r.ok
          THEN pc' = "assign" /\ characters' = r.characters
          ELSE pc' = "stopped" /\ characters' = characters
    /\ UNCHANGED <<run, voice_mapping, assignments, script, podcast_ready,
                   synthVars, fsVars, mixVars, runVars, authVars, pubVars, cleanVars>>

\* main, lines 455-458, and the except of line 485
AssignVoices ==
    /\ pc = "assign"
    /\ \E a \in assign_voices_to_characters(characters) :
         IF a.raised
         THEN /\ error' = "GenerationFailed"
              /\ pc' = "stopped"
              /\ UNCHANGED <<voice_mapping, assignments>>
         ELSE /\ voice_mapping' = a.voice_mapping
              /\ assignments' = a.assignments
              /\ error' = error
              /\ pc' = "assigned"
    /\ stages' = Append(stages, "assign")
    /\ UNCHANGED <<run, characters, script, podcast_ready, synthVars, fsVars, mixVars,
                   dirAtStart, authVars, pubVars, cleanVars>>

\* ------------------------------------------------------------ OAuth exchange
SessionKeys == {"podcast_ready", "podbean_access_token", "podbean_authenticated"}

\* What the POST to the token endpoint can end in: a 2xx response whose JSON
\* holds an access token, a 2xx response whose JSON holds none, a 4xx or 5xx
\* response, no response at all (connection failure or timeout).
ExchangeOutcomes == {"token", "no_token", "http_error", "network_failure"}

FailingOutcomes == {"http_error", "network_failure"}

\* get_podbean_access_token, lines 319-332.  raise_for_status raises an
\* HTTPError for a 4xx or 5xx response, and a response with such a status is
\* falsy, so line 331 is skipped and None is returned.  When requests.post
\* itself raises, `response` was never bound and `if response:` (line 330)
\* raises UnboundLocalError inside the handler, which leaves the function.
get_podbean_access_token(o) ==
    CASE o = "token" -> [raised |-> FALSE, value |-> "token"]
      [] o = "no_token" -> [raised |-> FALSE, value |-> "None"]
      [] o = "http_error" -> [raised |-> FALSE, value |-> "None"]
      [] OTHER -> [raised |-> TRUE, value |-> "None"]

\* The user follows the authorization link and is sent back with a new code
UserAuthorizes ==
    /\ pc \in {"new", "auth_required", "crashed"}
    /\ codesIssued < MaxCodes
    /\ codesIssued' = codesIssued + 1
    /\ query_code' = codesIssued + 1
    /\ UNCHANGED <<pc, genVars, synthVars, fsVars, mixVars, runVars, session_keys,
                   podbean_access_token, podbean_authenticated, exchanges, pageRuns,
                   pubVars, cleanVars>>

\* main, lines 388-421, with a code in the URL and the session not
\* authenticated: the exchange is made and the token endpoint answers o
PageRunExchange(o) ==
    /\ pc \in {"new", "auth_required", "crashed"}
    /\ pageRuns < MaxPageRuns
    /\ query_code # 0 /\ ~podbean_authenticated
    /\ pageRuns' = pageRuns + 1
    /\ session_keys' = SessionKeys
    /\ LET r == get_podbean_access_token(o)
       IN /\ exchanges' = Append(exchanges, [code |-> query_code, outcome |-> o,
                                             raised |-> r.raised, value |-> r.value])
          /\ IF r.raised
             THEN /\ pc' = "crashed"
                  /\ UNCHANGED <<podbean_access_token, podbean_authenticated, query_code>>
             ELSE IF r.value # "None"
             THEN /\ podbean_access_token' = r.value
                  /\ podbean_authenticated' = TRUE
                  /\ query_code' = 0
                  /\ pc' = "app"
             ELSE /\ pc' = "auth_required"
                  /\ UNCHANGED <<podbean_access_token, podbean_authenticated, query_code>>
    /\ UNCHANGED <<genVars, synthVars, fsVars, mixVars, runVars, codesIssued,
                   pubVars, cleanVars>>

\* main, lines 388-421, without a code in the URL or with the session
\* authenticated: no exchange; the run stops at line 421 unless authenticated
PageRun ==
    /\ pc \in {"new", "auth_required", "crashed", "app"}
    /\ pageRuns < MaxPageRuns
    /\ ~(query_code # 0 /\ ~podbean_authenticated)
    /\ pageRuns' = pageRuns + 1
    /\ session_keys' = SessionKeys
    /\ pc' = IF podbean_authenticated THEN "app" ELSE "auth_required"
    /\ UNCHANGED <<genVars, synthVars, fsVars, mixVars, runVars, codesIssued,
                   podbean_access_token, podbean_authenticated, query_code, exchanges,
                   pubVars, cleanVars>>

\* main, lines 439-444
LogoutKeepsToken ==
    /\ pc = "app"
    /\ podbean_authenticated' = FALSE
    /\ pc' = "auth_required"
    /\ UNCHANGED <<genVars, synthVars, fsVars, mixVars, runVars, session_keys,
                   podbean_access_token, query_code, codesIssued, exchanges, pageRuns,
                   pubVars, cleanVars>>

Logout ==
    /\ pc = "app"
    /\ podbean_authenticated' = FALSE
    /\ podbean_access_token' = "None"
    /\ pc' = "auth_required"
    /\ UNCHANGED <<genVars, synthVars, fsVars, mixVars, runVars, session_keys,
                   query_code, codesIssued, exchanges, pageRuns, pubVars, cleanVars>>

\* ------------------------------------------------------- upload_to_podbean
\* What the POST to the upload endpoint can end in: a response with a status,
\* or an exception (connection failure, timeout) and no response.
UploadStatuses == {200, 201, 204, 400, 401, 500}

UploadOutcomes ==
    [kind : {"response"}, status : UploadStatuses] \cup {[kind |-> "exception", status |-> 0]}

\* if response.status_code == 200 (line 360)
UploadAcceptsAny2xx(status) == status \in 200..299

UploadAccepts(status) == status = 200

\* if "podbean_access_token" not in st.session_state (line 337)
Refuses(keys, token) == "podbean_access_token" \notin keys

\* upload_to_podbean, lines 337-367, in a session state with the keys `keys`
\* and the token `token`, for a file that can be opened or not, the endpoint
\* answering o.  An exception of open() or of requests.post is caught at
\* line 365.  The request carries f"Bearer {token}", whatever the token is.
upload_to_podbean(keys, token, fileOpens, o) ==
    IF Refuses(keys, token)
    THEN [result |-> FALSE, requests |-> 0, error |-> "NotAuthenticated"]
    ELSE IF ~fileOpens
    THEN [result |-> FALSE, requests |-> 0, error |-> "UploadError"]
    ELSE IF o.kind = "exception"
    THEN [result |-> FALSE, requests |-> 1, error |-> "UploadError"]
    ELSE IF UploadAccepts(o.status)
    THEN [result |-> TRUE, requests |-> 1, error |-> "none"]
    ELSE [result |-> FALSE, requests |-> 1, error |-> "UploadFailed"]

\* One call of upload_to_podbean in the current session state
UploadCall(fileOpens, o) ==
    /\ pc = "publish"
    /\ Len(uploads) < MaxUploads
    /\ LET r == upload_to_podbean(session_keys, podbean_access_token, fileOpens, o)
       IN uploads' = Append(uploads,
                            [keys |-> session_keys, token |-> podbean_access_token,
                             fileOpens |-> fileOpens, outcome |-> o,
                             result |-> r.result, requests |-> r.requests, error |-> r.error])
    /\ UNCHANGED <<pc, genVars, synthVars, fsVars, mixVars, runVars, authVars, cleanVars>>

\* ------------------------------------------------------ cleanup_temp_files
\* A file name is base + "." + ext.  A file of the folder is [name, removable]:
\* os.remove succeeds on a removable file and raises on the others (a file
\* without write permission on it, a directory of that name).
Clip1File == [base |-> "001_Al", ext |-> "mp3"]
Clip2File == [base |-> "002_Jo", ext |-> "mp3"]
ManifestFile == [base |-> "files", ext |-> "txt"]
FinalFile == [base |-> "final_podcast", ext |-> "mp3"]
NotesFile == [base |-> "notes", ext |-> "txt"]

FolderNames == {Clip1File, Clip2File, ManifestFile, FinalFile, NotesFile}

\* The contents a folder can have: each name at most once
FolderContents ==
    {fs \in SUBSET [name : FolderNames, removable : BOOLEAN] :
        \A f \in fs : \A g \in fs : f.name = g.name => f = g}

\* filename != "final_podcast.mp3" and (filename.endswith(".mp3") or
\* filename == "files.txt")   (line 49)
ToDeleteWithFinal(filename) == filename.ext = "mp3" \/ filename = ManifestFile

ToDelete(filename) ==
    filename # FinalFile /\ (filename.ext = "mp3" \/ filename = ManifestFile)

\* The loop of lines 47-53 over the files of the listing still to visit:
\* a file to delete is removed, or a warning is shown when os.remove raises,
\* and the loop goes on with the next file.
RECURSIVE CleanupLoop(_, _, _)
CleanupLoop(todo, files, warned) ==
    IF todo = {} THEN [files |-> files, warnings |-> warned]
    ELSE LET f == CHOOSE x \in todo : TRUE
         IN IF ~ToDelete(f.name) THEN CleanupLoop(todo \ {f}, files, warned)
            ELSE IF f.removable THEN CleanupLoop(todo \ {f}, files \ {f}, warned)
            ELSE CleanupLoop(todo \ {f}, files, warned \cup {f.name})

\* cleanup_temp_files, lines 42-53
cleanup_temp_files(fo) ==
    IF ~fo.exists
    THEN [folder |-> fo, warnings |-> {}]
    ELSE LET r == CleanupLoop(fo.files, fo.files, {})
         IN [folder |-> [exists |-> TRUE, files |-> r.files], warnings |-> r.warnings]

CleanupCall ==
    /\ pc = "cleanup"
    /\ cleanupCalls < MaxCleanups
    /\ cleanupCalls' = cleanupCalls + 1
    /\ folderBefore' = folder
    /\ folder' = cleanup_temp_files(folder).folder
    /\ warnings' = cleanup_temp_files(folder).warnings
    /\ UNCHANGED <<pc, genVars, synthVars, fsVars, mixVars, runVars, authVars, pubVars>>

\* --------------------------------------------------------- specifications
\* Nothing extracted, synthesized or assembled yet
InitLocals ==
    /\ lines = <<>>
    /\ idx = 0
    /\ attempt = 0
    /\ generated_files = <<>>
    /\ calls = <<>>
    /\ okLines = {}
    /\ synthResult = "none"
    /\ mp3_files = <<>>
    /\ toolCalls = 0
    /\ combineResult = "none"
    /\ error = "none"

\* upload_to_podbean not called yet
InitNoUpload == uploads = <<>>

\* cleanup_temp_files not called yet, on an output folder not yet created
InitNoCleanup ==
    /\ folder = NoFolder
    /\ folderBefore = NoFolder
    /\ warnings = {}
    /\ cleanupCalls = 0

\* A session that has authenticated and has not been rerun since
InitAuthenticated ==
    /\ session_keys = SessionKeys
    /\ podbean_access_token = "token"
    /\ podbean_authenticated = TRUE
    /\ query_code = 0
    /\ codesIssued = 0
    /\ exchanges = <<>>
    /\ pageRuns = 0

\* An authenticated session on a working directory not yet created
Init ==
    /\ InitLocals
    /\ InitNoUpload
    /\ InitNoCleanup
    /\ InitAuthenticated
    /\ pc = "idle"
    /\ run = 0
    /\ characters = <<>>
    /\ voice_mapping = NoMapping
    /\ assignments = <<>>
    /\ script = [set |-> FALSE, text |-> <<>>]
    /\ podcast_ready = FALSE
    /\ dir = {}
    /\ final = NoFile
    /\ manifest = NoManifest
    /\ stages = <<>>
    /\ dirAtStart = {}

Next == GenerateClick

Spec == Init /\ [][Next]_vars


\* One call of extract_and_generate_audio as main makes it at line 475, for
\* every script text and for the voice mapping of a one-speaker and of a
\* two-speaker cast, followed by what main does with the result.
CastAlJo == <<[name |-> NameAl, gender |-> "male"], [name |-> NameJo, gender |-> "female"]>>

MappingFor(chars) == (CHOOSE a \in assign_voices_to_characters(chars) : TRUE).voice_mapping

InitSynth ==
    /\ InitLocals
    /\ InitNoUpload
    /\ InitNoCleanup
    /\ InitAuthenticated
    /\ pc = "extract"
    /\ run = 1
    /\ \E chars \in {CastAl, CastAlJo} :
         /\ characters = chars
         /\ voice_mapping = MappingFor(chars)
         /\ assignments = (CHOOSE a \in assign_voices_to_characters(chars) : TRUE).assignments
    /\ \E s \in Scripts : script = [set |-> TRUE, text |-> s]
    /\ podcast_ready = FALSE
    /\ dir = {}
    /\ final = NoFile
    /\ manifest = NoManifest
    /\ stages = <<"assign", "script">>
    /\ dirAtStart = {}

NextSynth ==
    \/ ExtractStart
    \/ LineSkip
    \/ LineStart
    \/ \E o \in Outcomes : SynthAttempt(o)
    \/ SynthFinish
    \/ MainAfterExtract
    \/ CombineCall
    \/ MainAfterCombine

SpecSynth == InitSynth /\ [][NextSynth]_vars

\* One call of combine_audio_clips_ffmpeg on every working directory made of
\* clips with the prefixes 001, 002 and 010, with or without an earlier final
\* artifact and manifest.
AssemblerNames == {ClipName(i, l) : i \in {0, 1, 9}, l \in {LabelAl, LabelJo}}

OldFinal == [exists |-> TRUE, clips |-> <<ClipName(0, LabelAl)>>]

OldManifest == [exists |-> TRUE, entries |-> <<ClipName(0, LabelAl)>>]

InitAssembler ==
    /\ InitLocals
    /\ InitNoUpload
    /\ InitNoCleanup
    /\ InitAuthenticated
    /\ pc = "mix"
    /\ run = 1
    /\ characters = CastAlJo
    /\ voice_mapping = MappingFor(CastAlJo)
    /\ assignments = (CHOOSE a \in assign_voices_to_characters(CastAlJo) : TRUE).assignments
    /\ script = [set |-> TRUE, text |-> <<>>]
    /\ podcast_ready = FALSE
    /\ \E names \in SUBSET AssemblerNames :
         /\ dir = {[name |-> n, by |-> 1] : n \in names}
         /\ dirAtStart = {[name |-> n, by |-> 1] : n \in names}
    /\ final \in {NoFile, OldFinal}
    /\ manifest \in {NoManifest, OldManifest}
    /\ stages = <<"assign", "script", "synth", "mix">>

NextAssembler ==
    \/ CombineCall
    \/ MainAfterCombine

SpecAssembler == InitAssembler /\ [][NextAssembler]_vars


\* The form filled in with up to MaxSpeakers speakers, then the voice
\* assignment of a generation run.
InitVoices ==
    /\ InitLocals
    /\ InitNoUpload
    /\ InitNoCleanup
    /\ InitAuthenticated
    /\ pc = "form"
    /\ run = 1
    /\ characters \in SeqsUpTo(FormCharacters, MaxSpeakers) \ {<<>>}
    /\ voice_mapping = NoMapping
    /\ assignments = <<>>
    /\ script = [set |-> FALSE, text |-> <<>>]
    /\ podcast_ready = FALSE
    /\ dir = {}
    /\ final = NoFile
    /\ manifest = NoManifest
    /\ stages = <<>>
    /\ dirAtStart = {}

NextVoices ==
    \/ GetCharacterInfo
    \/ AssignVoices

SpecVoices == InitVoices /\ [][NextVoices]_vars

\* A new browser session: nothing in the session state, no code in the URL.
InitAuth ==
    /\ InitLocals
    /\ InitNoUpload
    /\ InitNoCleanup
    /\ pc = "new"
    /\ run = 0
    /\ characters = <<>>
    /\ voice_mapping = NoMapping
    /\ assignments = <<>>
    /\ script = [set |-> FALSE, text |-> <<>>]
    /\ podcast_ready = FALSE
    /\ dir = {}
    /\ final = NoFile
    /\ manifest = NoManifest
    /\ stages = <<>>
    /\ dirAtStart = {}
    /\ session_keys = {}
    /\ podbean_access_token = "None"
    /\ podbean_authenticated = FALSE
    /\ query_code = 0
    /\ codesIssued = 0
    /\ exchanges = <<>>
    /\ pageRuns = 0

NextAuth ==
    \/ UserAuthorizes
    \/ \E o \in ExchangeOutcomes : PageRunExchange(o)
    \/ PageRun
    \/ Logout

SpecAuth == InitAuth /\ [][NextAuth]_vars


\* upload_to_podbean called in the session states main leaves behind: before
\* the initialisation of lines 388-394, after it (and after the logout of
\* lines 440-441, which gives the same state), and after a successful exchange.
SessionStates ==
    { [keys |-> {}, token |-> "None", authenticated |-> FALSE],
      [keys |-> SessionKeys, token |-> "None", authenticated |-> FALSE],
      [keys |-> SessionKeys, token |-> "token", authenticated |-> TRUE] }

InitUpload ==
    /\ InitLocals
    /\ InitNoUpload
    /\ InitNoCleanup
    /\ pc = "publish"
    /\ run = 0
    /\ characters = <<>>
    /\ voice_mapping = NoMapping
    /\ assignments = <<>>
    /\ script = [set |-> FALSE, text |-> <<>>]
    /\ podcast_ready = FALSE
    /\ dir = {}
    /\ final = NoFile
    /\ manifest = NoManifest
    /\ stages = <<>>
    /\ dirAtStart = {}
    /\ \E st \in SessionStates :
         /\ session_keys = st.keys
         /\ podbean_access_token = st.token
         /\ podbean_authenticated = st.authenticated
    /\ query_code = 0
    /\ codesIssued = 0
    /\ exchanges = <<>>
    /\ pageRuns = 0

NextUpload == \E fileOpens \in BOOLEAN, o \in UploadOutcomes : UploadCall(fileOpens, o)

SpecUpload == InitUpload /\ [][NextUpload]_vars


\* cleanup_temp_files called up to MaxCleanups times on every output folder:
\* missing, empty, or holding any of the clips, the manifest, the final
\* artifact and a file of another kind, each removable or not.
InitCleanup ==
    /\ InitLocals
    /\ InitNoUpload
    /\ InitAuthenticated
    /\ pc = "cleanup"
    /\ run = 0
    /\ characters = <<>>
    /\ voice_mapping = NoMapping
    /\ assignments = <<>>
    /\ script = [set |-> FALSE, text |-> <<>>]
    /\ podcast_ready = FALSE
    /\ dir = {}
    /\ final = NoFile
    /\ manifest = NoManifest
    /\ stages = <<>>
    /\ dirAtStart = {}
    /\ folder \in {NoFolder} \cup {[exists |-> TRUE, files |-> fs] : fs \in FolderContents}
    /\ folderBefore = folder
    /\ warnings = {}
    /\ cleanupCalls = 0

NextCleanup == CleanupCall

SpecCleanup == InitCleanup /\ [][NextCleanup]_vars


\* ------------------------------------------------------------------ claims
StrictlyIncreasing(names) ==
    \A i \in 1..Len(names) : \A j \in 1..Len(names) :
        i < j => SortKey(names[i]) < SortKey(names[j])

MixStarted == Len(stages) >= 4 /\ stages[4] = "mix"

\* C1 (as claimed): a generation run that starts with no per-line artifact in
\* the working directory and reaches assembly leaves a manifest that lists
\* exactly the clips synthesized in that run, each once, in strictly
\* increasing order of their numeric prefix, which is the script order.
C1_ManifestListsRunClips ==
    (pc = "idle" /\ MixStarted /\ dirAtStart = {}) =>
        /\ manifest.exists
        /\ manifest.entries = generated_files
        /\ StrictlyIncreasing(manifest.entries)

\* C2 (as claimed): after the second run of the pipeline in one working
\* directory has reached assembly, exactly one final artifact exists and it
\* and the manifest hold only clips written by the second run, whatever the
\* first run did.
C2_SecondRunOnlyOwnClips ==
    (pc = "idle" /\ run = 2 /\ MixStarted) =>
        /\ final.exists
        /\ SeqRange(final.clips) \subseteq SeqRange(generated_files)
        /\ manifest.exists
        /\ SeqRange(manifest.entries) \subseteq {f.name : f \in {x \in dir : x.by = run}}

\* C3 (amended): for a line with a voice at most 3 synthesis calls are made;
\* no call follows one that returned status 200 with a non-empty body; every
\* failed call, be it an exception, a status that is not 200 or an empty
\* body, uses up one of the 3 attempts, and the line is left only after an
\* accepted response or after the third failure.
C3_RetryBudget ==
    /\ Len(calls) <= MaxAttempts
    /\ \A k \in 1..(Len(calls) - 1) : calls[k] # "ok200"
    /\ pc = "try" => (Len(calls) = attempt /\ attempt < MaxAttempts)
    /\ (pc = "loop" /\ calls # <<>>) =>
          (calls[Len(calls)] = "ok200" \/ Len(calls) = MaxAttempts)

\* C3 witness: a line given up after an exception, a non-2xx status and an
\* empty body
C3_ThreeKindsOfFailure ==
    /\ pc = "loop"
    /\ calls = <<"exception", "non2xx", "empty200">>

\* C3 (as claimed): no synthesis call follows one that returned a success
\* (2xx) status with a non-empty body.
C3_NoCallAfterSuccessStatus ==
    \A k \in 1..(Len(calls) - 1) : calls[k] \notin {"ok200", "other2xx"}

ClipsOfRun == {f \in dir : f.by = run}

\* C4: once extract_and_generate_audio has returned, it returned True if and
\* only if a clip was written in this run; assembly is started only after a
\* clip was written; and a script with dialogue lines none of which was
\* synthesized ends the run with NoAudioGenerated and no assembly.
C4_StageSucceedsIffSomeClip ==
    /\ synthResult # "none" => (synthResult = "True" <=> ClipsOfRun # {})
    /\ MixStarted => ClipsOfRun # {}
    /\ (pc = "stopped" /\ lines # <<>> /\ ClipsOfRun = {}) =>
          (error = "NoAudioGenerated" /\ ~MixStarted /\ combineResult = "none")

\* C4 witness: two lines with a voice, the first synthesized, the second
\* given up after 3 failed attempts, and the stage reported success
C4_OneLineLostStageSucceeds ==
    /\ synthResult = "True"
    /\ Len(lines) = 2
    /\ okLines = {0}
    /\ Len(calls) = MaxAttempts
    /\ calls[MaxAttempts] # "ok200"
    /\ MixStarted

\* C6: combine_audio_clips_ffmpeg called on a working directory without any
\* per-line clip returns False with NoClipsToAssemble, writes no manifest and
\* does not invoke the concatenation tool.
C6_NoClipsNoManifestNoTool ==
    (pc \in {"combine_returned", "stopped"} /\ dirAtStart = {}) =>
        /\ combineResult = "False"
        /\ error = "NoClipsToAssemble"
        /\ manifest \in {NoManifest, OldManifest}
        /\ toolCalls = 0
        /\ ~podcast_ready

\* C6 witness: the call has returned on a directory without clips
C6_ReturnedOnEmptyDirectory ==
    /\ pc = "stopped"
    /\ dirAtStart = {}
    /\ mp3_files = <<>>
    /\ error = "NoClipsToAssemble"

NoDialogue(text) == \A i \in 1..Len(text) : text[i].kind # "dialogue"

\* C7: for a script text without any `Label: text` line, the empty text
\* included, extract_and_generate_audio returns False with EmptyScript, no
\* synthesis call is made, no clip is written, and main starts no assembly.
C7_EmptyScriptStopsRun ==
    (NoDialogue(script.text) /\ pc # "extract") =>
        /\ pc \in {"extract_returned", "stopped"}
        /\ synthResult = "False"
        /\ error = "EmptyScript"
        /\ calls = <<>>
        /\ generated_files = <<>>
        /\ dir = {}
        /\ ~MixStarted
        /\ combineResult = "none"
        /\ toolCalls = 0

\* C7 witness: the run was stopped on a script of two lines, none a dialogue line
C7_StoppedOnNarrationOnly ==
    /\ pc = "stopped"
    /\ Len(script.text) = 2
    /\ NoDialogue(script.text)
    /\ error = "EmptyScript"

AssignCalled == stages # <<>> /\ stages[1] = "assign"

PoolSet(gender) == SeqRange(Pool(gender))

SameGender(chars, g) == {i \in 1..Len(chars) : chars[i].gender = g}

\* C8 (as claimed): for every list of N speakers the form returns,
\* assign_voices_to_characters returns N assignments in input order, each
\* voice from the pool of the speaker's gender, and the voices of a gender
\* with at most 3 speakers are pairwise distinct.
C8_AssignsNPoolVoicesDistinct ==
    AssignCalled =>
        /\ Len(assignments) = Len(characters)
        /\ \A i \in 1..Len(assignments) :
              /\ assignments[i].name = characters[i].name
              /\ assignments[i].voice \in PoolSet(characters[i].gender)
        /\ \A g \in Genders :
              Cardinality(SameGender(characters, g)) <= Len(Pool(g)) =>
                  \A i \in SameGender(characters, g) : \A j \in SameGender(characters, g) :
                      (i # j /\ i <= Len(assignments) /\ j <= Len(assignments))
                          => assignments[i].voice # assignments[j].voice

\* C9 (as claimed): assign_voices_to_characters returns a result for every
\* speaker list the form can produce; it never raises.
C9_AssignNeverRaises ==
    AssignCalled => (pc = "assigned" /\ error # "GenerationFailed")

\* C10 (as claimed): every failing token-endpoint call (a non-success status,
\* or no response at all) makes get_podbean_access_token return None without
\* an exception leaving it, and leaves the session without token and not
\* authenticated.
C10_FailedExchangeReturnsNone ==
    (exchanges # <<>> /\ exchanges[Len(exchanges)].outcome \in FailingOutcomes) =>
        /\ ~exchanges[Len(exchanges)].raised
        /\ exchanges[Len(exchanges)].value = "None"
        /\ pc # "crashed"
        /\ podbean_access_token = "None"
        /\ ~podbean_authenticated

\* C11 (as claimed): a call of upload_to_podbean in a session state without
\* a token, the key podbean_access_token being absent or holding None,
\* returns False and sends no upload request.
C11_NoTokenNoUpload ==
    \A k \in 1..Len(uploads) :
        uploads[k].token = "None" =>
            (~uploads[k].result /\ uploads[k].requests = 0)

\* C13 (amended): a call of upload_to_podbean that gets a response reports
\* success exactly when the status is 200 and reports UploadFailed for every
\* other status, the 2xx statuses other than 200 included; in both cases it
\* has sent exactly one upload request.
C13_SuccessIffStatus200 ==
    \A k \in 1..Len(uploads) :
        (uploads[k].requests > 0 /\ uploads[k].outcome.kind = "response") =>
            /\ uploads[k].result <=> uploads[k].outcome.status = 200
            /\ ~uploads[k].result => uploads[k].error = "UploadFailed"
            /\ uploads[k].requests = 1

\* C13 witness: one upload answered with status 200 and reported as success,
\* one answered with status 201 and reported as failed
C13_Status200ThenStatus201 ==
    /\ Len(uploads) = 2
    /\ uploads[1].outcome.status = 200 /\ uploads[1].result
    /\ uploads[2].outcome.status = 201 /\ ~uploads[2].result
    /\ uploads[2].error = "UploadFailed"

\* C13 (as claimed): a call of upload_to_podbean that gets a response reports
\* success for every 2xx status and UploadFailed for every other status, and
\* has sent exactly one upload request.
C13_SuccessIff2xx ==
    \A k \in 1..Len(uploads) :
        (uploads[k].requests > 0 /\ uploads[k].outcome.kind = "response") =>
            /\ uploads[k].result <=> uploads[k].outcome.status \in 200..299
            /\ uploads[k].requests = 1

FilesNamed(fo, names) == {f \in fo.files : f.name \in names}

TransientNames == {Clip1File, Clip2File, ManifestFile}

\* C12: after a call of cleanup_temp_files on any output folder (missing,
\* empty, with clips and manifest) the folder is missing exactly if it was
\* before; no removable clip or manifest is left; a clip or manifest that
\* cannot be removed is still there with a warning, and the removable ones
\* around it are gone all the same; final_podcast.mp3 and the files of other
\* kinds are as they were; and a second call leaves the folder as the first
\* call left it.
C12_CleanupTotalIdempotent ==
    cleanupCalls > 0 =>
        /\ folder.exists = folderBefore.exists
        /\ \A f \in FilesNamed(folder, TransientNames) : ~f.removable
        /\ FilesNamed(folder, TransientNames) =
              {f \in FilesNamed(folderBefore, TransientNames) : ~f.removable}
        /\ warnings = {f.name : f \in FilesNamed(folder, TransientNames)}
        /\ FilesNamed(folder, {FinalFile, NotesFile}) =
              FilesNamed(folderBefore, {FinalFile, NotesFile})
        /\ cleanupCalls > 1 => folder = folderBefore

\* C12 witness: a second call on a folder where the first call removed a
\* clip, could not remove the manifest, and kept the final artifact
C12_SecondCallAfterFailedDeletion ==
    /\ cleanupCalls = 2
    /\ folder.files = {[name |-> ManifestFile, removable |-> FALSE],
                       [name |-> FinalFile, removable |-> TRUE]}
    /\ warnings = {ManifestFile}

\* What a step that runs a generation leaves behind
RunOutcomeOrdered ==
    /\ stages' \in {StagesUpTo(r) : r \in {"assign", "script", "synth", "mix"}}
    /\ Len(stages') >= 2 =>
          /\ \A i \in 1..Len(characters') : HasToken(characters'[i].name)
          /\ Len(assignments') = Len(characters')
          /\ error' # "GenerationFailed"
    /\ Len(stages') >= 3 =>
          /\ script'.set /\ script'.text # <<>>
          /\ synthResult' # "none"
    /\ Len(stages') < 3 => (synthResult' = "none" /\ dir' = dir)
    /\ Len(stages') >= 4 <=> synthResult' = "True"
    /\ Len(stages') < 4 =>
          (combineResult' = "none" /\ final' = final /\ manifest' = manifest)
    /\ (podcast_ready' /\ ~podcast_ready) => combineResult' = "True"
    /\ combineResult' = "False" =>
          /\ podcast_ready' = podcast_ready
          /\ toolCalls' = toolCalls
          /\ ~final'.exists
          /\ manifest' = manifest
          /\ SeqRange(generated_files') \subseteq ClipNamesOf(dir')
          /\ ClipNamesOf(dir) \subseteq ClipNamesOf(dir')

HasVoice(i) == FirstNameKey(lines[i + 1]) \in DOMAIN voice_mapping

\* C15: no synthesis call is made and no clip written for a dialogue line
\* whose first-name key is not in the voice mapping; the loop goes on to the
\* end of the script; and every clip carries the script position of its own
\* line as prefix, skipped lines before it counted.
C15_VoicelessLineSkipped ==
    /\ pc = "try" => HasVoice(idx)
    /\ (calls # <<>> /\ pc # "try") => HasVoice(idx - 1)
    /\ \A i \in okLines : HasVoice(i)
    /\ ClipNamesOf(dir) = {ClipName(i, lines[i + 1]) : i \in okLines}
    /\ \A i \in okLines : SortKey(ClipName(i, lines[i + 1])) = i + 1
    /\ Len(generated_files) = Cardinality(okLines)
    /\ pc \in {"extract_returned", "mix", "combine_returned", "stopped"} => idx = Len(lines)

\* C15 witness: the first line has no voice, the second has one and was
\* synthesized into the clip with prefix 002, the only clip
C15_SecondLineKeepsPrefixTwo ==
    /\ pc = "extract_returned"
    /\ Len(lines) = 2
    /\ ~HasVoice(0)
    /\ okLines = {1}
    /\ ClipNamesOf(dir) = {[prefix |-> <<0, 0, 2>>, label |-> LabelAl]}

\* C16 (as claimed): an authorization code is submitted to the token
\* endpoint at most once over all page reruns, so after a failed exchange
\* no exchange is made until a new code is supplied.
C16_CodeSubmittedOnce ==
    \A i \in 1..Len(exchanges) : \A j \in 1..Len(exchanges) :
        i < j => exchanges[i].code # exchanges[j].code

\* C18 (as claimed): once assign_voices_to_characters has returned, each
\* entry of the assignment list names the voice the voice mapping holds for
\* that speaker's first-name key.
C18_DisplayedVoiceIsMappedVoice ==
    (pc = "assigned" /\ AssignCalled) =>
        \A i \in 1..Len(assignments) :
            assignments[i].voice = voice_mapping[FirstNameKey(characters[i].name)]

\* C19: once a page run has initialised the session state,
\* podbean_authenticated is true exactly when podbean_access_token holds a
\* token, and the part of the page behind the authentication section is
\* reached only with podbean_authenticated true.
C19_AuthenticatedIffToken ==
    session_keys = SessionKeys =>
        /\ podbean_authenticated <=> podbean_access_token # "None"
        /\ pc = "app" => podbean_authenticated

\* C19 witness: the session was authenticated by an exchange and has logged
\* out since
C19_LoggedOutAfterExchange ==
    /\ exchanges # <<>>
    /\ exchanges[Len(exchanges)].value = "token"
    /\ pc = "auth_required"
    /\ ~podbean_authenticated
    /\ podbean_access_token = "None"

=============================================================================
